---- MODULE Spec2Model ----
(***************************************************************************)
(* The Atlas kit driver (class Atlas) of src/atlas.py and                  *)
(* src/starter/atlas.py: a MAX7219 six digit display behind an SPI bus     *)
(* with a chip select, a beeper driven by hardware timers, and buttons     *)
(* and timers whose callbacks run as interrupts.                           *)
(*                                                                         *)
(* The two files are two revisions of the same class.  The model takes    *)
(* the constructor, stop_note and the button callbacks from src/atlas.py, *)
(* and write_hex, the hex flag of increment_num/decrement_num, play_note   *)
(* with a duration and the clock from src/starter/atlas.py; write_num,     *)
(* display_clear, _register and _debounce are the same in both.            *)
(*                                                                         *)
(* Every method is translated to a program of instructions, one per access *)
(* to the shared state or to the bus (Exec runs one instruction).  The     *)
(* sequential specifications run a whole call in one step (Run); IrqSpec   *)
(* runs one instruction per step and lets a handler preempt the main       *)
(* context between any two instructions.                                   *)
(***************************************************************************)
EXTENDS Integers, Sequences, FiniteSets, TLC

(***************************************************************************)
(* Constants of the source.                                                *)
(***************************************************************************)
_DIGIT0 == 1
_DIGIT5 == 6
_DECODE_MODE == 9
_INTENSITY == 10
_SCAN_LIMIT == 11
_SHUTDOWN == 12
_DISPLAY_TEST == 15
_DP == 128
_MAX_VALUE_DEC == 999999
_MIN_VALUE_DEC == -99999
_MAX_VALUE_HEX == 16777215
_MIN_VALUE_HEX == 0
_MAX_VALUE_DP == 63
_MIN_VALUE_DP == 0
_DEBOUNCE_SAMPLES == 32

\* _DIGIT_DICT: digit position 0..5 -> register address
_DIGIT_DICT(i) == _DIGIT0 + i

\* _HEX_TO_SEG: nibble -> seven segment pattern
_HEX_TO_SEG(n) ==
    << 126, 48, 109, 121, 51, 91, 95, 112,
       127, 123, 119, 31, 78, 61, 79, 71 >>[n + 1]

\* The data bytes the methods write as literals.
DECODE_ALL == 255
DECODE_RAW == 0
BLANK_GLYPH == 15
MINUS_GLYPH == 10
CLOCK_DP == 20
BUZZER_IDLE == 1

\* The registers of the controller.
RegAddrs == (_DIGIT0 .. _DIGIT5) \cup
            {_DECODE_MODE, _INTENSITY, _SCAN_LIMIT, _SHUTDOWN, _DISPLAY_TEST}

\* Python's None, and a value that is not None.
None == << >>
Some(v) == << v >>
Val(x) == x[1]

(***************************************************************************)
(* Bounds of the model.                                                    *)
(***************************************************************************)
\* Values are drawn within Near of each edge of the decimal and hex ranges.
Near == 2

\* Under interrupts, values are drawn within IrqNear of zero and of the
\* upper edge of the decimal range.
IrqNear == 1

\* The beeper is given NumNotes frequencies and NumDurations durations.
NumNotes == 4
NumDurations == 4

\* play_song is given songs of up to SongLen notes.
SongLen == 2

\* A bouncing button reads high at up to MaxHigh of the reads of _debounce.
MaxHigh == 2

VARIABLES
    current_num,    \* self.current_num: None or Some(integer)
    current_dp,     \* self.current_dp
    last_write,     \* history: "none", "dec" or "hex", the mode of the last
                    \* successful write (None after display_clear)
    regs,           \* the registers of the MAX7219
    cs,             \* the chip select pin self._cs
    shift,          \* the last frame shifted into the controller
    frames,         \* the frames sent by the last call, in order
    err,            \* the exception the last call raised, "" for none
    last_op,        \* history: the last call.  << name >>, then for a write
                    \* whether its arguments were in range and, when they
                    \* were, the arguments; for
                    \* increment_num, decrement_num and the callbacks that
                    \* call them the flag (hex, or the press confirmed) and
                    \* the current_num the call found
    beeper,         \* the level of the sound pin (self.buzzer / self.beeper)
    beeper_timer,   \* Timer(2): None, or Some(freq) while periodic
    duration_timer, \* Timer(0): None, or Some(the milliseconds left) while
                    \* the one shot is pending
    since_stop,     \* history: stop_note was called and no play_note since
    elapsed,        \* history: milliseconds since the last play_note with a
                    \* duration
    sounding,       \* history: that play_note, << duration, what was left
                    \* of the one shot it found pending >>; None before
    note_todo,      \* None, or Some(<< freq, duration >>) while play_note
                    \* has armed Timer(2) and has still to arm Timer(0)
    song_todo,      \* the notes play_song has still to issue
    song_issued,    \* history: the notes the last play_song has issued
    red_led,        \* the level of self.red_led
    rtc,            \* self.rtc: the datetime tuple (year, month, day,
                    \* weekday, hours, minutes, seconds, subseconds)
    ntp_todo,       \* None, or Some(utc_offset) while set_time_ntp has
                    \* returned from ntptime.settime() and has still to
                    \* write the shifted tuple
    main_todo,      \* IrqSpec: the instructions left of the main context
    irq_todo,       \* IrqSpec: the instructions left of the running handler
    sentinel        \* history: current_num holds the -1 or 1 that
                    \* increment_num or decrement_num stored before its write

display_vars == << current_num, current_dp, last_write, regs, cs, shift >>
call_vars == << frames, err, last_op >>
tone_vars == << beeper, beeper_timer, duration_timer, since_stop,
               elapsed, sounding, note_todo, song_todo, song_issued >>
led_vars == << red_led >>
rtc_vars == << rtc, ntp_todo >>
irq_vars == << main_todo, irq_todo, sentinel >>
vars == << current_num, current_dp, last_write, regs, cs, shift,
           frames, err, last_op,
           beeper, beeper_timer, duration_timer, since_stop,
           elapsed, sounding, note_todo, song_todo, song_issued, red_led,
           rtc, ntp_todo, main_todo, irq_todo, sentinel >>

(***************************************************************************)
(* Integer helpers: the bit operations of the source on naturals.          *)
(***************************************************************************)
RECURSIVE BitOr(_, _)
BitOr(a, b) ==
    IF a = 0 THEN b
    ELSE IF b = 0 THEN a
    ELSE (IF (a % 2 = 1) \/ (b % 2 = 1) THEN 1 ELSE 0)
         + 2 * BitOr(a \div 2, b \div 2)

BitAnd1(a) == a % 2
ShiftRight1(a) == a \div 2

(***************************************************************************)
(* Programs: each method as the sequence of instructions it executes.      *)
(***************************************************************************)
\* _register: select, send [command, data], deselect.
_register(command, data) ==
    << << "cs_low" >>, << "spi_write", command, data >>, << "cs_high" >> >>

\* DecDigits with dp = dp >> 1 left out.
RECURSIVE DecDigitsStuckDp(_, _, _, _)
DecDigitsStuckDp(i, n, value, dp) ==
    IF i >= n THEN << >>
    ELSE LET current_value == value % 10
         IN  (IF BitAnd1(dp) = 1
              THEN _register(_DIGIT_DICT(i), BitOr(current_value, _DP))
              ELSE _register(_DIGIT_DICT(i), current_value))
             \o DecDigitsStuckDp(i + 1, n, value \div 10, dp)

\* The digit loop of write_num: n positions from position i on.
RECURSIVE DecDigits(_, _, _, _)
DecDigits(i, n, value, dp) ==
    IF i >= n THEN << >>
    ELSE LET current_value == value % 10
         IN  (IF BitAnd1(dp) = 1
              THEN _register(_DIGIT_DICT(i), BitOr(current_value, _DP))
              ELSE _register(_DIGIT_DICT(i), current_value))
             \o DecDigits(i + 1, n, value \div 10, ShiftRight1(dp))

DpInRange(dp) == _MIN_VALUE_DP <= dp /\ dp <= _MAX_VALUE_DP

\* WriteNumBody with value = -value left out of the negative branch.
WriteNumBodyNoNegate(value, dp) ==
    IF (0 <= value /\ value <= _MAX_VALUE_DEC) /\ DpInRange(dp)
    THEN << << "set_num", value, "dec" >>, << "set_dp", dp >> >>
         \o DecDigits(0, 6, value, dp)
    ELSE IF (0 > value /\ value >= _MIN_VALUE_DEC) /\ DpInRange(dp)
    THEN << << "set_num", value, "dec" >>, << "set_dp", dp >> >>
         \o _register(_DIGIT5, MINUS_GLYPH)
         \o DecDigits(0, 5, value, dp)
    ELSE << << "raise", "ValueError" >> >>

\* WriteNumBody with current_num and current_dp assigned before the range
\* is checked.
WriteNumBodyStoreFirst(value, dp) ==
    << << "set_num", value, "dec" >>, << "set_dp", dp >> >>
    \o (IF (0 <= value /\ value <= _MAX_VALUE_DEC) /\ DpInRange(dp)
        THEN DecDigits(0, 6, value, dp)
        ELSE IF (0 > value /\ value >= _MIN_VALUE_DEC) /\ DpInRange(dp)
        THEN _register(_DIGIT5, MINUS_GLYPH) \o DecDigits(0, 5, -value, dp)
        ELSE << << "raise", "ValueError" >> >>)

WriteNumBody(value, dp) ==
    IF (0 <= value /\ value <= _MAX_VALUE_DEC) /\ DpInRange(dp)
    THEN << << "set_num", value, "dec" >>, << "set_dp", dp >> >>
         \o DecDigits(0, 6, value, dp)
    ELSE IF (0 > value /\ value >= _MIN_VALUE_DEC) /\ DpInRange(dp)
    THEN << << "set_num", value, "dec" >>, << "set_dp", dp >> >>
         \o _register(_DIGIT5, MINUS_GLYPH)
         \o DecDigits(0, 5, -value, dp)
    ELSE << << "raise", "ValueError" >> >>

WriteNumProg(value, dp) ==
    _register(_DECODE_MODE, DECODE_ALL) \o WriteNumBody(value, dp)

\* The digit loop of write_hex.
RECURSIVE HexDigits(_, _)
HexDigits(i, value) ==
    IF i >= 6 THEN << >>
    ELSE _register(_DIGIT_DICT(i), _HEX_TO_SEG(value % 16))
         \o HexDigits(i + 1, value \div 16)

\* WriteHexBody with the lower bound of the range left out.
WriteHexBodyNoLowerBound(value) ==
    IF value <= _MAX_VALUE_HEX
    THEN << << "set_num", value, "hex" >> >> \o HexDigits(0, value)
    ELSE << << "raise", "ValueError" >> >>

WriteHexBody(value) ==
    IF 0 <= value /\ value <= _MAX_VALUE_HEX
    THEN << << "set_num", value, "hex" >> >> \o HexDigits(0, value)
    ELSE << << "raise", "ValueError" >> >>

WriteHexProg(value) ==
    _register(_DECODE_MODE, DECODE_RAW) \o WriteHexBody(value)

RECURSIVE ClearDigits(_)
ClearDigits(i) ==
    IF i >= 6 THEN << >>
    ELSE _register(_DIGIT_DICT(i), BLANK_GLYPH) \o ClearDigits(i + 1)

\* display_clear without the write of the decode mode.
DisplayClearProgKeepsMode == ClearDigits(0) \o << << "set_none" >> >>

DisplayClearProg ==
    _register(_DECODE_MODE, DECODE_ALL) \o ClearDigits(0)
    \o << << "set_none" >> >>

DisplayBrightnessProg(value) ==
    IF 0 <= value /\ value <= 15
    THEN _register(_INTENSITY, value)
    ELSE << << "raise", "ValueError" >> >>

IncrementProg(hex) == << << "inc_is_none", hex >> >>
DecrementProg(hex) == << << "dec_is_none", hex >> >>

\* __init__ of src/atlas.py, the display part.
InitProg ==
    _register(_SHUTDOWN, 0) \o _register(_DISPLAY_TEST, 0)
    \o _register(_SCAN_LIMIT, 7) \o _register(_DECODE_MODE, 0)
    \o _register(_SHUTDOWN, 1) \o DisplayClearProg
    \o DisplayBrightnessProg(5)

(***************************************************************************)
(* The machine.  A context is a record: the shared state of the object     *)
(* (num, dp, wrote), the bus and the controller (cs, shift, regs), what    *)
(* the call has sent and raised (frames, err) and the instructions it has  *)
(* left (todo).                                                            *)
(***************************************************************************)
Goto(s, prog) == [s EXCEPT !.todo = prog \o Tail(s.todo)]

\* raise: nothing in the class catches, the call ends here.
Raise(s, e) == [s EXCEPT !.err = e, !.todo = << >>]

\* self._cs.value(0)
ExecCsLow(s) == [s EXCEPT !.cs = 0, !.todo = Tail(s.todo)]

\* self._spi.write(bytearray([command, data]))
ExecSpiWrite(s, command, data) ==
    [s EXCEPT !.shift = << command, data >>,
              !.frames = Append(s.frames, << command, data >>),
              !.todo = Tail(s.todo)]

\* self._cs.value(1): the controller latches the frame it holds on the
\* rising edge of the chip select.
ExecCsHigh(s) ==
    [s EXCEPT !.cs = 1,
              !.regs = IF s.cs = 0 /\ s.shift # None
                       THEN [s.regs EXCEPT ![s.shift[1]] = s.shift[2]]
                       ELSE s.regs,
              !.todo = Tail(s.todo)]

\* increment_num: if self.current_num is None: raise ValueError
ExecIncIsNone(s, hex) ==
    IF s.num = None THEN Raise(s, "ValueError")
    ELSE Goto(s, << << "inc_cmp", hex >> >>)

\* ExecIncCmp wrapping to 0 instead of -1.
ExecIncCmpWrapZero(s, hex) ==
    IF s.num = None THEN Raise(s, "TypeError")
    ELSE IF Val(s.num) + 1 > (IF hex THEN _MAX_VALUE_HEX ELSE _MAX_VALUE_DEC)
    THEN Goto(s, << << "store_num", 0 >>, << "inc_arg_num", hex >> >>)
    ELSE Goto(s, << << "inc_arg_num", hex >> >>)

\* if (self.current_num + 1) > _MAX_VALUE_...: self.current_num = -1
ExecIncCmp(s, hex) ==
    IF s.num = None THEN Raise(s, "TypeError")
    ELSE IF Val(s.num) + 1 > (IF hex THEN _MAX_VALUE_HEX ELSE _MAX_VALUE_DEC)
    THEN Goto(s, << << "store_num", -1 >>, << "inc_arg_num", hex >> >>)
    ELSE Goto(s, << << "inc_arg_num", hex >> >>)

\* the argument self.current_num + 1 of the write
ExecIncArgNum(s, hex) ==
    IF s.num = None THEN Raise(s, "TypeError")
    ELSE IF hex THEN Goto(s, WriteHexProg(Val(s.num) + 1))
    ELSE Goto(s, << << "call_write_num", Val(s.num) + 1 >> >>)

\* ExecDecIsNone with the test for None left out.
ExecDecIsNoneUnchecked(s, hex) == Goto(s, << << "dec_cmp", hex >> >>)

\* decrement_num: if self.current_num is None: raise ValueError
ExecDecIsNone(s, hex) ==
    IF s.num = None THEN Raise(s, "ValueError")
    ELSE Goto(s, << << "dec_cmp", hex >> >>)

\* ExecDecCmp wrapping a hexadecimal value to the top of its range.
ExecDecCmpWrapTop(s, hex) ==
    IF s.num = None THEN Raise(s, "TypeError")
    ELSE IF Val(s.num) - 1 < (IF hex THEN _MIN_VALUE_HEX ELSE _MIN_VALUE_DEC)
    THEN Goto(s, << << "store_num", IF hex THEN _MAX_VALUE_HEX + 1 ELSE 1 >>,
                    << "dec_arg_num", hex >> >>)
    ELSE Goto(s, << << "dec_arg_num", hex >> >>)

\* if (self.current_num - 1) < _MIN_VALUE_...: self.current_num = 1
ExecDecCmp(s, hex) ==
    IF s.num = None THEN Raise(s, "TypeError")
    ELSE IF Val(s.num) - 1 < (IF hex THEN _MIN_VALUE_HEX ELSE _MIN_VALUE_DEC)
    THEN Goto(s, << << "store_num", 1 >>, << "dec_arg_num", hex >> >>)
    ELSE Goto(s, << << "dec_arg_num", hex >> >>)

\* the argument self.current_num - 1 of the write
ExecDecArgNum(s, hex) ==
    IF s.num = None THEN Raise(s, "TypeError")
    ELSE IF hex THEN Goto(s, WriteHexProg(Val(s.num) - 1))
    ELSE Goto(s, << << "call_write_num", Val(s.num) - 1 >> >>)

\* the argument self.current_dp, then the call of write_num
ExecCallWriteNum(s, value) == Goto(s, WriteNumProg(value, s.dp))

Exec(s) ==
    LET ins == Head(s.todo)
        op == ins[1]
    IN  CASE op = "cs_low" -> ExecCsLow(s)
          [] op = "spi_write" -> ExecSpiWrite(s, ins[2], ins[3])
          [] op = "cs_high" -> ExecCsHigh(s)
          [] op = "set_num" ->
                [s EXCEPT !.num = Some(ins[2]), !.wrote = ins[3],
                          !.todo = Tail(s.todo)]
          [] op = "set_dp" -> [s EXCEPT !.dp = ins[2], !.todo = Tail(s.todo)]
          [] op = "set_none" ->
                [s EXCEPT !.num = None, !.wrote = "none",
                          !.todo = Tail(s.todo)]
          [] op = "store_num" ->
                [s EXCEPT !.num = Some(ins[2]), !.todo = Tail(s.todo)]
          [] op = "raise" -> Raise(s, ins[2])
          [] op = "inc_is_none" -> ExecIncIsNone(s, ins[2])
          [] op = "inc_cmp" -> ExecIncCmp(s, ins[2])
          [] op = "inc_arg_num" -> ExecIncArgNum(s, ins[2])
          [] op = "dec_is_none" -> ExecDecIsNone(s, ins[2])
          [] op = "dec_cmp" -> ExecDecCmp(s, ins[2])
          [] op = "dec_arg_num" -> ExecDecArgNum(s, ins[2])
          [] op = "call_write_num" -> ExecCallWriteNum(s, ins[2])

\* A whole call, with nothing preempting it.
RECURSIVE Run(_)
Run(s) == IF s.todo = << >> THEN s ELSE Run(Exec(s))

\* The context of a call that starts in the current state.
Context(prog) ==
    [num |-> current_num, dp |-> current_dp, wrote |-> last_write,
     regs |-> regs, cs |-> cs, shift |-> shift,
     frames |-> << >>, err |-> "", todo |-> prog]

\* The RTC before anything sets it: the start of its epoch, a Saturday.
RtcReset == << 2000, 1, 1, 5, 0, 0, 0, 0 >>

\* The state after construction: the controller powers up with every
\* register 0, and __init__ runs.
PowerOn ==
    [num |-> None, dp |-> 0, wrote |-> "none",
     regs |-> [a \in RegAddrs |-> 0], cs |-> 1, shift |-> None,
     frames |-> << >>, err |-> "", todo |-> InitProg]

Constructed == Run(PowerOn)

Init ==
    /\ current_num = Constructed.num
    /\ current_dp = Constructed.dp
    /\ last_write = Constructed.wrote
    /\ regs = Constructed.regs
    /\ cs = Constructed.cs
    /\ shift = Constructed.shift
    /\ frames = << >>
    /\ err = ""
    /\ last_op = << "init" >>
    /\ beeper = BUZZER_IDLE
    /\ beeper_timer = None
    /\ duration_timer = None
    /\ since_stop = FALSE
    /\ elapsed = 0
    /\ sounding = None
    /\ note_todo = None
    /\ song_todo = << >>
    /\ song_issued = 0
    /\ red_led = 0
    /\ rtc = RtcReset
    /\ ntp_todo = None
    /\ main_todo = << >>
    /\ irq_todo = << >>
    /\ sentinel = FALSE

(***************************************************************************)
(* The sequential specification: every call runs to its end.               *)
(***************************************************************************)
Commit(name, r) ==
    /\ current_num' = r.num
    /\ current_dp' = r.dp
    /\ last_write' = r.wrote
    /\ regs' = r.regs
    /\ cs' = r.cs
    /\ shift' = r.shift
    /\ frames' = r.frames
    /\ err' = r.err
    /\ last_op' = name
    /\ UNCHANGED << tone_vars, led_vars, rtc_vars, irq_vars >>

\* The values the calls are given: within Near of each edge of the decimal
\* and hexadecimal ranges and of zero, and the clock samples.
Around(c) == (c - Near) .. (c + Near)

ClockSamples == { << 0, 0, 0 >>, << 7, 5, 9 >>, << 23, 59, 59 >> }

Values ==
    Around(_MIN_VALUE_DEC) \cup Around(0) \cup Around(_MAX_VALUE_DEC)
    \cup Around(_MAX_VALUE_HEX)
    \cup { t[1] * 10000 + t[2] * 100 + t[3] : t \in ClockSamples }

\* The masks the calls are given: the edges of the range, one past each, the
\* mask of the clock and a single point.
DpSamples ==
    { _MIN_VALUE_DP - 1, _MIN_VALUE_DP, 2, CLOCK_DP, _MAX_VALUE_DP,
      _MAX_VALUE_DP + 1 }

\* A call is followed when the value it leaves is among EncValues (this stops
\* increment_num and decrement_num from walking through the whole range).
\* The values the encoder is given besides: digits that differ from place
\* to place, of every length.
EncSamples ==
    { 7, 123, 40506, 123456, 908070, -7, -123, -40506, -98765 }

EncValues == Values \cup EncSamples

\* Every mask, and one past each end of the range.
EncDps == (_MIN_VALUE_DP - 1) .. (_MAX_VALUE_DP + 1)

InWindow(r) == IF r.num = None THEN TRUE ELSE Val(r.num) \in EncValues

Call(name, prog) ==
    LET r == Run(Context(prog))
    IN  InWindow(r) /\ Commit(name, r)

\* The ranges the documentation gives for the arguments of the writes.
NumArgsInRange(value, dp) ==
    /\ _MIN_VALUE_DEC <= value /\ value <= _MAX_VALUE_DEC
    /\ _MIN_VALUE_DP <= dp /\ dp <= _MAX_VALUE_DP

HexArgInRange(value) == _MIN_VALUE_HEX <= value /\ value <= _MAX_VALUE_HEX

\* What last_op keeps of a write: its arguments when they are in range.
WriteNumOp(value, dp) ==
    IF NumArgsInRange(value, dp) THEN << "write_num", TRUE, value, dp >>
    ELSE << "write_num", FALSE >>

WriteHexOp(value) ==
    IF HexArgInRange(value) THEN << "write_hex", TRUE, value >>
    ELSE << "write_hex", FALSE >>

write_num(value, dp) ==
    /\ value \in Int /\ dp \in Int
    /\ Call(WriteNumOp(value, dp), WriteNumProg(value, dp))

write_hex(value) ==
    /\ value \in Int
    /\ Call(WriteHexOp(value), WriteHexProg(value))

\* last_op keeps the mode of the display the call found.
display_clear ==
    /\ TRUE
    /\ Call(<< "display_clear", last_write >>, DisplayClearProg)

increment_num(hex) ==
    /\ hex \in BOOLEAN
    /\ Call(<< "increment_num", hex, current_num >>, IncrementProg(hex))

decrement_num(hex) ==
    /\ hex \in BOOLEAN
    /\ Call(<< "decrement_num", hex, current_num >>, DecrementProg(hex))

\* The brightness values given: the lower edge of 0..15 and one past each end.
BrightnessSamples == { -1, 0, 16 }

\* display_brightness(value)
display_brightness(value) ==
    /\ value \in Int
    /\ Call(<< "display_brightness", value >>, DisplayBrightnessProg(value))

\* timer_callback: self.increment_num()
timer_callback ==
    /\ TRUE
    /\ Call(<< "timer_callback", FALSE, current_num >>, IncrementProg(FALSE))

(***************************************************************************)
(* _debounce.  reads is the sequence of levels button.value() returns, two *)
(* reads for each of the _DEBOUNCE_SAMPLES iterations.                     *)
(***************************************************************************)
RECURSIVE DebounceLoop(_, _, _)
DebounceLoop(reads, i, flag) ==
    IF i >= _DEBOUNCE_SAMPLES THEN flag = 0
    ELSE LET f == reads[2 * i + 1]
         IN  IF reads[2 * i + 2] # 0 THEN f = 0
             ELSE DebounceLoop(reads, i + 1, f)

_debounce(reads) == DebounceLoop(reads, 0, 0)

\* The levels of a button held down, and of one already released.
Steady(level) == [i \in 1 .. 2 * _DEBOUNCE_SAMPLES |-> level]
ButtonReads == { Steady(0), Steady(1) }

\* incr_button_callback: if self._debounce(...): self.increment_num()
IncrButtonProg(reads) ==
    IF _debounce(reads) THEN IncrementProg(FALSE) ELSE << >>

\* decr_button_callback: if self._debounce(...): self.decrement_num()
DecrButtonProg(reads) ==
    IF _debounce(reads) THEN DecrementProg(FALSE) ELSE << >>

incr_button_callback(reads) ==
    /\ reads \in ButtonReads
    /\ Call(<< "incr_button_callback", _debounce(reads), current_num >>,
            IncrButtonProg(reads))

decr_button_callback(reads) ==
    /\ reads \in ButtonReads
    /\ Call(<< "decr_button_callback", _debounce(reads), current_num >>,
            DecrButtonProg(reads))

\* The reads of a button that bounces: every read low but those of at most
\* MaxHigh places, and the two steady levels.
RECURSIVE HighPlaces(_)
HighPlaces(k) ==
    IF k = 0 THEN { {} }
    ELSE HighPlaces(k - 1)
         \cup { S \cup { i } : S \in HighPlaces(k - 1),
                              i \in 1 .. 2 * _DEBOUNCE_SAMPLES }

DebounceReads ==
    { [i \in 1 .. 2 * _DEBOUNCE_SAMPLES |-> IF i \in S THEN 1 ELSE 0] :
        S \in HighPlaces(MaxHigh) }
    \cup ButtonReads

\* mode_button_callback of src/starter/atlas.py:
\* if self._debounce(self.mode_button): self.toggle_led(self.red_led).
\* last_op keeps the levels read and what _debounce returned.
mode_button_callback(reads) ==
    /\ reads \in DebounceReads
    /\ red_led' = (IF _debounce(reads)
                   THEN (IF red_led # 0 THEN 0 ELSE 1)
                   ELSE red_led)
    /\ last_op' = << "mode_button_callback", reads, _debounce(reads) >>
    /\ UNCHANGED << display_vars, frames, err, tone_vars, irq_vars,
                    rtc_vars >>

(***************************************************************************)
(* The clock.  _update_clock24 builds the string HHMMSS from the fields of *)
(* rtc.datetime() and writes int() of it.                                  *)
(***************************************************************************)
\* str(n) for n >= 0, as a sequence of digits
RECURSIVE Str(_)
Str(n) == IF n < 10 THEN << n >> ELSE Str(n \div 10) \o << n % 10 >>

\* int(s) for a string of digits
RECURSIVE IntOf(_)
IntOf(s) ==
    IF s = << >> THEN 0
    ELSE 10 * IntOf(SubSeq(s, 1, Len(s) - 1)) + s[Len(s)]

\* Pad2 without the '0' in front of a single digit.
Pad2Unpadded(n) == Str(n)

\* if hours < 10: time_str += '0', then time_str += str(hours)
Pad2(n) == (IF n < 10 THEN << 0 >> ELSE << >>) \o Str(n)

TimeStr(hours, minutes, seconds) ==
    Pad2(hours) \o Pad2(minutes) \o Pad2(seconds)

\* _update_clock24 calling increment_num, as timer_callback does.
UpdateClock24ProgSteps(hours, minutes, seconds) == IncrementProg(FALSE)

UpdateClock24Prog(hours, minutes, seconds) ==
    WriteNumProg(IntOf(TimeStr(hours, minutes, seconds)), CLOCK_DP)

\* What rtc.datetime() can give as hours, minutes and seconds.
ClockTimes == (0 .. 23) \X (0 .. 59) \X (0 .. 59)

\* clock_timer_callback: self._update_clock24().  last_op keeps the time
\* read and the current_num the call found.
clock_timer_callback(t) ==
    /\ t \in ClockTimes
    /\ Commit(<< "clock_timer_callback", t, current_num >>,
              Run(Context(UpdateClock24Prog(t[1], t[2], t[3]))))

(***************************************************************************)
(* Setting the time.  ntptime.settime() sets the RTC to the UTC time of    *)
(* the server; set_time_ntp then reads it, shifts the hours by utc_offset  *)
(* and writes the tuple back.                                              *)
(***************************************************************************)
\* set_time_ntp wrapping only above 24.
NtpHourWrapsLate(h, utc_offset) ==
    LET hour == h + utc_offset
    IN  IF hour < 0 THEN 24 + hour
        ELSE IF hour > 24 THEN hour - 24
        ELSE hour

\* hour = d[4] + utc_offset; if hour < 0: hour = 24 + hour;
\* elif hour > 23: hour = hour - 24
NtpHour(h, utc_offset) ==
    LET hour == h + utc_offset
    IN  IF hour < 0 THEN 24 + hour
        ELSE IF hour > 23 THEN hour - 24
        ELSE hour

\* What ntptime.settime() can set the RTC to: every hour of two dates.
NtpDates ==
    { << 2019, 1, 1, 1, 0, 0, 0 >>, << 2024, 2, 29, 3, 59, 59, 999 >> }

NtpTimes ==
    { << d[1], d[2], d[3], d[4], h, d[5], d[6], d[7] >> :
        d \in NtpDates, h \in 0 .. 23 }

\* The offsets set_time_ntp is given.
UtcOffsets == (0 - 24) .. 24

\* set_time_ntp(utc_offset), up to the return of ntptime.settime(), the
\* server giving the time now: the RTC holds the time of the server, and
\* callbacks run before the call goes on.
set_time_ntp(now, utc_offset) ==
    /\ now \in NtpTimes
    /\ utc_offset \in UtcOffsets
    /\ ntp_todo = None
    /\ rtc' = now
    /\ ntp_todo' = Some(utc_offset)
    /\ err' = ""
    /\ last_op' = << "ntptime.settime", now >>
    /\ UNCHANGED << display_vars, frames, tone_vars, led_vars, irq_vars >>

\* set_time_ntp(utc_offset) when ntptime.settime() raises (no network, no
\* answer): the call ends there and the RTC is as it was.
set_time_ntp_raises(utc_offset) ==
    /\ utc_offset \in UtcOffsets
    /\ ntp_todo = None
    /\ err' = "OSError"
    /\ last_op' = << "set_time_ntp_raises" >>
    /\ UNCHANGED << display_vars, frames, rtc_vars, tone_vars, led_vars,
                    irq_vars >>

\* The rest of set_time_ntp: d = self.rtc.datetime(), the shift of the
\* hours, self.rtc.datetime(d).  last_op keeps the tuple read and the
\* offset.
set_time_ntp_shift ==
    /\ ntp_todo # None
    /\ rtc' = << rtc[1], rtc[2], rtc[3], rtc[4],
                 NtpHour(rtc[5], Val(ntp_todo)), rtc[6], rtc[7], rtc[8] >>
    /\ ntp_todo' = None
    /\ err' = ""
    /\ last_op' = << "set_time_ntp", rtc, Val(ntp_todo) >>
    /\ UNCHANGED << display_vars, frames, tone_vars, led_vars, irq_vars >>

\* set_time(hour, minute, second)
set_time(hour, minute, second) ==
    /\ << hour, minute, second >> \in ClockSamples
    /\ ntp_todo = None
    /\ rtc' = << 2019, 1, 1, 0, hour, minute, second, 0 >>
    /\ err' = ""
    /\ last_op' = << "set_time", hour, minute, second >>
    /\ UNCHANGED << display_vars, frames, ntp_todo, tone_vars, led_vars,
                    irq_vars >>

\* clock_timer_callback reading the RTC as it stands.
rtc_clock_timer_callback ==
    /\ << rtc[5], rtc[6], rtc[7] >> \in ClockTimes
    /\ clock_timer_callback(<< rtc[5], rtc[6], rtc[7] >>)

\* The main context sets the time with the display as display_clear leaves
\* it (start_clock24 is called "after setting the time"); the clock
\* callback runs at any time, also between the statements of set_time_ntp.
NtpNext ==
    \/ /\ current_num = None
       /\ ntp_todo = None
       /\ \E now \in NtpTimes, utc_offset \in UtcOffsets :
             set_time_ntp(now, utc_offset)
    \/ /\ current_num = None
       /\ ntp_todo = None
       /\ \E utc_offset \in UtcOffsets : set_time_ntp_raises(utc_offset)
    \/ set_time_ntp_shift
    \/ /\ current_num = None
       /\ ntp_todo = None
       /\ \E t \in ClockSamples : set_time(t[1], t[2], t[3])
    \/ rtc_clock_timer_callback
    \/ /\ ntp_todo = None
       /\ display_clear

NtpSpec == Init /\ [][NtpNext]_vars

Next ==
    \/ \E value \in Values, dp \in DpSamples : write_num(value, dp)
    \/ \E value \in Values : write_hex(value)
    \/ display_clear
    \/ \E value \in BrightnessSamples : display_brightness(value)
    \/ \E hex \in BOOLEAN : increment_num(hex)
    \/ \E hex \in BOOLEAN : decrement_num(hex)
    \/ timer_callback
    \/ \E reads \in ButtonReads : incr_button_callback(reads)
    \/ \E reads \in ButtonReads : decr_button_callback(reads)
    \/ \E t \in ClockSamples : clock_timer_callback(t)

Spec == Init /\ [][Next]_vars

(***************************************************************************)
(* The encoder on its own: every value of EncValues with every mask of     *)
(* EncDps, each written to a blank display.                                *)
(***************************************************************************)
EncNext ==
    \/ \E value \in EncValues, dp \in EncDps :
          current_num = None /\ write_num(value, dp)
    \/ display_clear

EncSpec == Init /\ [][EncNext]_vars

(***************************************************************************)
(* The clock on its own: every time of day, each refreshed onto a blank    *)
(* display.                                                                *)
(***************************************************************************)
ClockNext ==
    \/ /\ current_num = None
       /\ \E t \in ClockTimes : clock_timer_callback(t)
    \/ display_clear

ClockSpec == Init /\ [][ClockNext]_vars

(***************************************************************************)
(* The buttons on their own: the mode button pressed, with every sequence  *)
(* of DebounceReads, after construction and after each display_clear.      *)
(***************************************************************************)
DebounceNext ==
    \/ /\ last_op[1] # "mode_button_callback"
       /\ \E reads \in DebounceReads : mode_button_callback(reads)
    \/ display_clear

DebounceSpec == Init /\ [][DebounceNext]_vars

(***************************************************************************)
(* What the frames of a call show.                                         *)
(***************************************************************************)
IsDigitFrame(f) == _DIGIT0 <= f[1] /\ f[1] <= _DIGIT5

\* The frames sent to the digit registers, in the order sent.
DigitFrames == SelectSeq(frames, IsDigitFrame)

\* The digit field of a data byte (the byte without its decimal point bit),
\* and its decimal point bit.
DigitField(data) == data % _DP
DpBit(data) == (data \div _DP) % 2

\* The number a sequence of digit frames shows, first frame least
\* significant.
RECURSIVE Reconstruct(_)
Reconstruct(fs) ==
    IF fs = << >> THEN 0
    ELSE DigitField(Head(fs)[2]) + 10 * Reconstruct(Tail(fs))

RECURSIVE Pow2(_)
Pow2(i) == IF i = 0 THEN 1 ELSE 2 * Pow2(i - 1)

MaskBit(mask, i) == (mask \div Pow2(i)) % 2

OpIs(name) == last_op[1] = name

\* The last call was write_num with in-range arguments, value within lo..hi.
WroteNumIn(lo, hi) ==
    IF OpIs("write_num")
    THEN IF last_op[2] THEN lo <= last_op[3] /\ last_op[3] <= hi ELSE FALSE
    ELSE FALSE

(***************************************************************************)
(* C1.  write_num(value, mask) with 0 <= value <= 999999 and a mask in     *)
(* 0..63 raises nothing and sends one frame to each digit register, digit  *)
(* 0 first; the digit fields, read least significant first, give value,    *)
(* and the decimal point bit of digit i is bit i of mask.                  *)
(***************************************************************************)
C1_NonNegativeEncoding ==
    WroteNumIn(0, _MAX_VALUE_DEC) =>
        /\ err = ""
        /\ Len(DigitFrames) = 6
        /\ \A i \in 0 .. 5 :
              /\ DigitFrames[i + 1][1] = _DIGIT0 + i
              /\ DpBit(DigitFrames[i + 1][2]) = MaskBit(last_op[4], i)
        /\ Reconstruct(DigitFrames) = last_op[3]

C1_Witness ==
    /\ last_op = << "write_num", TRUE, 908070, 42 >>
    /\ Len(DigitFrames) = 6
    /\ DigitFrames[2] = << 2, 135 >>

(***************************************************************************)
(* C2.  write_num(value, mask) with -99999 <= value <= -1 sends the sign   *)
(* glyph 0xA to digit 5, nothing else to digit 5, and one frame to each of *)
(* the digits 0..4, whose digit fields give abs(value).                    *)
(***************************************************************************)
C2_NegativeEncoding ==
    WroteNumIn(_MIN_VALUE_DEC, -1) =>
        /\ err = ""
        /\ Len(DigitFrames) = 6
        /\ DigitFrames[1] = << _DIGIT5, MINUS_GLYPH >>
        /\ \A i \in 0 .. 4 : DigitFrames[i + 2][1] = _DIGIT0 + i
        /\ Reconstruct(Tail(DigitFrames)) = -last_op[3]

C2_Witness ==
    /\ last_op = << "write_num", TRUE, -40506, 63 >>
    /\ DigitFrames[1] = << 6, 10 >>
    /\ DigitFrames[2] = << 1, 134 >>

\* The last call was a write whose arguments were out of range.
RejectedWrite ==
    IF OpIs("write_num") \/ OpIs("write_hex") THEN ~last_op[2] ELSE FALSE

(***************************************************************************)
(* C3.  A write_num or write_hex whose arguments are out of range raises   *)
(* ValueError and leaves current_num and current_dp as they were, from any *)
(* display state.                                                          *)
(***************************************************************************)
C3_RejectedWriteKeepsDisplayState ==
    [][RejectedWrite' =>
          /\ err' = "ValueError"
          /\ current_num' = current_num
          /\ current_dp' = current_dp]_vars

C3_Witness ==
    /\ last_op = << "write_num", FALSE >>
    /\ err = "ValueError"
    /\ last_write = "hex"
    /\ current_num = Some(_MAX_VALUE_HEX)
    /\ current_dp = CLOCK_DP

(***************************************************************************)
(* C4.  A write_num or write_hex that is rejected as out of range sends no *)
(* frame at all, so the registers of the controller are as they were.      *)
(***************************************************************************)
C4_RejectedWriteSendsNothing ==
    [][RejectedWrite' => (frames' = << >> /\ regs' = regs)]_vars

InDecRange(v) == _MIN_VALUE_DEC <= v /\ v <= _MAX_VALUE_DEC
InHexRange(v) == _MIN_VALUE_HEX <= v /\ v <= _MAX_VALUE_HEX

\* The last call was name with hex flag hex, on a current_num in the
\* decimal range.
SteppedDec(name) ==
    IF OpIs(name)
    THEN IF ~last_op[2] /\ last_op[3] # None
         THEN InDecRange(Val(last_op[3])) ELSE FALSE
    ELSE FALSE

(***************************************************************************)
(* C5.  Without the hex flag, increment_num on a current_num v in the      *)
(* decimal range leaves v + 1, and 0 when v = 999999; decrement_num leaves *)
(* v - 1, and 0 when v = -99999.                                           *)
(***************************************************************************)
C5_DecimalStep ==
    /\ SteppedDec("increment_num") =>
          /\ err = ""
          /\ current_num =
                Some(IF Val(last_op[3]) = _MAX_VALUE_DEC THEN 0
                     ELSE Val(last_op[3]) + 1)
    /\ SteppedDec("decrement_num") =>
          /\ err = ""
          /\ current_num =
                Some(IF Val(last_op[3]) = _MIN_VALUE_DEC THEN 0
                     ELSE Val(last_op[3]) - 1)

C5_Witness ==
    /\ last_op = << "decrement_num", FALSE, Some(_MIN_VALUE_DEC) >>
    /\ last_write = "dec"
    /\ current_num = Some(0)
    /\ regs[_DIGIT5] = 0

\* The last call reached increment_num or decrement_num with current_num
\* None.
SteppedBlank ==
    IF OpIs("increment_num") \/ OpIs("decrement_num") \/ OpIs("timer_callback")
    THEN last_op[3] = None
    ELSE IF OpIs("incr_button_callback") \/ OpIs("decr_button_callback")
    THEN last_op[2] /\ last_op[3] = None
    ELSE FALSE

(***************************************************************************)
(* C6.  With current_num None, increment_num and decrement_num, called     *)
(* directly, by a button callback whose press was confirmed or by          *)
(* timer_callback, raise ValueError, send no frame and leave current_num   *)
(* None.                                                                   *)
(***************************************************************************)
C6_BlankStepRaises ==
    SteppedBlank =>
        /\ err = "ValueError"
        /\ frames = << >>
        /\ current_num = None

C6_Witness ==
    /\ last_op = << "decr_button_callback", TRUE, None >>
    /\ err = "ValueError"
    /\ current_num = None

(***************************************************************************)
(* C7.  Between calls the display state is in range: current_num is None,  *)
(* or the last successful write was decimal and current_num is within      *)
(* -99999..999999, or it was hexadecimal and current_num is within         *)
(* 0..0xFFFFFF.                                                            *)
(***************************************************************************)
C7_RangeInvariant ==
    IF current_num = None THEN TRUE
    ELSE \/ last_write = "dec" /\ InDecRange(Val(current_num))
         \/ last_write = "hex" /\ InHexRange(Val(current_num))

\* A decimal increment of a hexadecimal value above the decimal range.
C7_Witness ==
    /\ last_op = << "increment_num", FALSE, Some(_MAX_VALUE_HEX) >>
    /\ last_write = "dec"
    /\ current_num = Some(0)

(***************************************************************************)
(* The beeper.  play_note arms the periodic timer Timer(2), whose callback *)
(* toggles the sound pin, and the one shot Timer(0), whose callback stops  *)
(* the periodic timer.  Timer(0) is one hardware timer: init on it while   *)
(* it is pending arms it anew.  Time passes in steps of 200 milliseconds;  *)
(* the one shot fires when its period has passed, the periodic timer at    *)
(* any step while it is armed.                                             *)
(***************************************************************************)
\* NOTES, from C3 up, in tenths of a hertz.
NOTES == << 1308, 1386, 1468, 1556, 1648, 1746, 1850, 1960, 2077, 2200 >>

\* The notes played are the first NumNotes of NOTES, for a multiple of 200
\* milliseconds up to NumDurations of them (the durations of SONGS are such).
Freqs == { NOTES[i] : i \in 1 .. NumNotes }
Durations == { 200 * k : k \in 1 .. NumDurations }

\* The songs given to play_song: up to SongLen notes, each the i-th
\* frequency for i times 200 milliseconds.
SongNotes == { << NOTES[i], 200 * i >> : i \in 1 .. NumNotes }
Songs == UNION { [1 .. n -> SongNotes] : n \in 1 .. SongLen }

\* self.beeper_timer.init(freq=freq, mode=Timer.PERIODIC, ...), the first of
\* the two inits of play_note(freq, duration).  The call has still to arm
\* Timer(0), and callbacks run before it does.
play_note_beeper_init(freq, duration) ==
    /\ note_todo = None
    /\ beeper_timer' = Some(freq)
    /\ note_todo' = Some(<< freq, duration >>)
    /\ since_stop' = FALSE
    /\ last_op' = << "beeper_timer.init", freq >>
    /\ UNCHANGED << beeper, duration_timer, elapsed, sounding, display_vars,
                    frames, err, irq_vars, led_vars, rtc_vars >>

\* duration_timer.init(period=duration, mode=Timer.ONE_SHOT, ...), the
\* second init of play_note, after which the call returns.
play_note_duration_init ==
    /\ note_todo # None
    /\ duration_timer' = Some(Val(note_todo)[2])
    /\ elapsed' = 0
    /\ sounding' = << Val(note_todo)[2], duration_timer >>
    /\ note_todo' = None
    /\ last_op' = << "play_note", Val(note_todo)[1], Val(note_todo)[2] >>
    /\ UNCHANGED << beeper, beeper_timer, since_stop, song_todo, song_issued,
                    display_vars, frames, err, irq_vars, led_vars,
                    rtc_vars >>

\* play_note(freq, duration), called from the main context
play_note(freq, duration) ==
    /\ song_todo = << >>
    /\ play_note_beeper_init(freq, duration)
    /\ UNCHANGED << song_todo, song_issued >>

\* play_song(notes): the call, and then one iteration of its loop at a
\* time, self.play_note(note[0], note[1]).
play_song(notes) ==
    /\ song_todo = << >>
    /\ note_todo = None
    /\ song_todo' = notes
    /\ song_issued' = 0
    /\ last_op' = << "play_song" >>
    /\ UNCHANGED << beeper, beeper_timer, duration_timer, since_stop,
                    elapsed, sounding, note_todo, display_vars, frames, err,
                    irq_vars, led_vars, rtc_vars >>

play_song_step ==
    /\ song_todo # << >>
    /\ play_note_beeper_init(Head(song_todo)[1], Head(song_todo)[2])
    /\ song_todo' = Tail(song_todo)
    /\ song_issued' = song_issued + 1

\* play_note(freq) of src/atlas.py
play_note_freq(freq) ==
    /\ song_todo = << >>
    /\ note_todo = None
    /\ beeper_timer' = Some(freq)
    /\ since_stop' = FALSE
    /\ last_op' = << "play_note", freq >>
    /\ UNCHANGED << beeper, duration_timer, elapsed, sounding, note_todo,
                    song_todo, song_issued, display_vars, frames, err,
                    irq_vars, led_vars, rtc_vars >>

\* stop_note with self.buzzer.value(1) left out.
stop_note_keeps_level ==
    /\ song_todo = << >>
    /\ note_todo = None
    /\ beeper_timer' = None
    /\ since_stop' = TRUE
    /\ last_op' = << "stop_note" >>
    /\ UNCHANGED << beeper, duration_timer, elapsed, sounding, note_todo,
                    song_todo, song_issued, display_vars, frames, err,
                    irq_vars, led_vars, rtc_vars >>

\* stop_note of src/atlas.py
stop_note ==
    /\ song_todo = << >>
    /\ note_todo = None
    /\ beeper_timer' = None
    /\ beeper' = 1
    /\ since_stop' = TRUE
    /\ last_op' = << "stop_note" >>
    /\ UNCHANGED << duration_timer, elapsed, sounding, note_todo, song_todo,
                    song_issued, display_vars, frames, err, irq_vars,
                    led_vars, rtc_vars >>

\* beeper_callback: toggle_led(self.beeper), each time Timer(2) fires
beeper_callback ==
    /\ beeper_timer # None
    /\ beeper' = (IF beeper # 0 THEN 0 ELSE 1)
    /\ last_op' = << "beeper_callback" >>
    /\ UNCHANGED << beeper_timer, duration_timer, since_stop, elapsed,
                    sounding, note_todo, song_todo, song_issued,
                    display_vars, frames, err, irq_vars, led_vars,
                    rtc_vars >>

\* lambda _: self.beeper_timer.deinit(), when the one shot Timer(0) fires
duration_callback ==
    /\ duration_timer = Some(0)
    /\ beeper_timer' = None
    /\ duration_timer' = None
    /\ last_op' = << "duration_callback" >>
    /\ UNCHANGED << beeper, since_stop, elapsed, sounding, note_todo,
                    song_todo, song_issued, display_vars, frames, err,
                    irq_vars, led_vars, rtc_vars >>

\* 200 milliseconds pass while the one shot is pending.  The loop of
\* play_song does not wait, and neither its iterations nor the statements
\* of play_note take such time.
tick ==
    /\ song_todo = << >>
    /\ note_todo = None
    /\ duration_timer # None
    /\ duration_timer # Some(0)
    /\ duration_timer' = Some(Val(duration_timer) - 200)
    /\ elapsed' = elapsed + 200
    /\ last_op' = << "tick" >>
    /\ UNCHANGED << beeper, beeper_timer, since_stop, sounding, note_todo,
                    song_todo, song_issued, display_vars, frames, err,
                    irq_vars, led_vars, rtc_vars >>

ToneNext ==
    \/ \E freq \in Freqs, duration \in Durations : play_note(freq, duration)
    \/ play_note_duration_init
    \/ \E notes \in Songs : play_song(notes)
    \/ play_song_step
    \/ \E freq \in Freqs : play_note_freq(freq)
    \/ stop_note
    \/ beeper_callback
    \/ duration_callback
    \/ tick

ToneSpec == Init /\ [][ToneNext]_vars

(***************************************************************************)
(* C9.  When the one shot of play_note fires, the periodic timer is        *)
(* stopped and the sound pin is at its idle level.                         *)
(***************************************************************************)
C9_OneShotForcesIdle ==
    OpIs("duration_callback") =>
        (beeper_timer = None /\ beeper = BUZZER_IDLE)

(***************************************************************************)
(* C10.  From stop_note until the next play_note the periodic timer is     *)
(* stopped and the sound pin is at its idle level, also when the one shot  *)
(* of an earlier play_note fires in between.                               *)
(***************************************************************************)
C10_StopNoteSilences ==
    since_stop => (beeper_timer = None /\ beeper = BUZZER_IDLE)

\* The one shot of the note that stop_note cut fires after the stop.
C10_Witness ==
    /\ since_stop
    /\ last_op = << "duration_callback" >>
    /\ beeper_timer = None
    /\ beeper = BUZZER_IDLE

(***************************************************************************)
(* C11.  play_song issues the play_note of a note after the first only     *)
(* when the note before it has completed: its one shot has fired and the   *)
(* periodic timer is stopped.                                              *)
(***************************************************************************)
C11_SongNotesComplete ==
    [][(song_issued >= 1 /\ song_issued' = song_issued + 1)
          => (duration_timer = None /\ beeper_timer = None)]_vars

(***************************************************************************)
(* C12.  play_note(f2, d2) during a tone replaces it: right after the call *)
(* the periodic timer runs at f2 and the one shot has d2 to go; the one    *)
(* shot that is pending is always that of the latest play_note, and when   *)
(* it fires, d2 has passed since that call.  The code arms the two timers  *)
(* in two statements: the one shot of the first tone, firing between them, *)
(* stops the periodic timer that the call has just armed at f2.            *)
(***************************************************************************)
C12_PlayNoteReplaces ==
    /\ (OpIs("play_note") /\ Len(last_op) = 3) =>
          /\ beeper_timer = Some(last_op[2])
          /\ duration_timer = Some(last_op[3])
          /\ elapsed = 0
    /\ duration_timer # None =>
          /\ sounding # None
          /\ Val(duration_timer) + elapsed = sounding[1]
    /\ OpIs("duration_callback") =>
          /\ sounding # None
          /\ elapsed = sounding[1]

(***************************************************************************)
(* Interrupts.  The main context runs a call one instruction at a time.    *)
(* A button or timer callback starts between any two instructions of the   *)
(* main context (and when it is idle) and runs to its end before the main  *)
(* context goes on: callbacks do not preempt one another.  Nothing in the  *)
(* class disables interrupts or guards the bus.                            *)
(***************************************************************************)
IrqValues ==
    ((0 - IrqNear) .. IrqNear)
    \cup ((_MAX_VALUE_DEC - IrqNear) .. (_MAX_VALUE_DEC + IrqNear))

IrqDps == { _MIN_VALUE_DP, CLOCK_DP }

InIrqWindow(r) == IF r.num = None THEN TRUE ELSE Val(r.num) \in IrqValues

\* The values the main context writes: the two edges.
IrqWrites == { 0, _MAX_VALUE_DEC }

\* The calls of the main context.
MainProgs ==
    { WriteNumProg(value, dp) : value \in IrqWrites, dp \in IrqDps }
    \cup { WriteHexProg(value) : value \in IrqWrites }
    \cup { IncrementProg(hex) : hex \in BOOLEAN }
    \cup { DecrementProg(hex) : hex \in BOOLEAN }
    \cup { DisplayClearProg }
    \cup { DisplayBrightnessProg(value) : value \in { 0, 16 } }

\* One instruction of a context whose instructions left are todo.
StepContext(todo) == [Context(todo) EXCEPT !.err = err]

\* After the instruction ins: the sentinel is in current_num from the
\* store of increment_num or decrement_num until a write or display_clear
\* assigns current_num.
SentinelAfter(ins) ==
    IF ins[1] = "store_num" THEN TRUE
    ELSE IF ins[1] = "set_num" \/ ins[1] = "set_none" THEN FALSE
    ELSE sentinel

StepCommit(r) ==
    /\ current_num' = r.num
    /\ current_dp' = r.dp
    /\ last_write' = r.wrote
    /\ regs' = r.regs
    /\ cs' = r.cs
    /\ shift' = r.shift
    /\ err' = r.err

main_call(prog) ==
    /\ main_todo = << >>
    /\ irq_todo = << >>
    /\ main_todo' = prog
    /\ err' = ""
    /\ UNCHANGED << display_vars, frames, last_op, tone_vars, led_vars,
                    rtc_vars,
                    irq_todo, sentinel >>

main_step ==
    /\ main_todo # << >>
    /\ irq_todo = << >>
    /\ LET r == Exec(StepContext(main_todo))
       IN  /\ InIrqWindow(r)
           /\ StepCommit(r)
           /\ main_todo' = r.todo
    /\ sentinel' = SentinelAfter(Head(main_todo))
    /\ UNCHANGED << frames, last_op, tone_vars, led_vars, rtc_vars, irq_todo >>

\* A callback starts: a callback is followed when the value it leaves is
\* among IrqValues.
Fire(prog) ==
    /\ irq_todo = << >>
    /\ prog # << >>
    /\ InIrqWindow(Run(StepContext(prog)))
    /\ irq_todo' = prog
    /\ UNCHANGED << display_vars, call_vars, tone_vars, led_vars, rtc_vars,
                    main_todo,
                    sentinel >>

irq_timer_callback ==
    /\ TRUE
    /\ Fire(IncrementProg(FALSE))

irq_incr_button_callback(reads) ==
    /\ reads \in ButtonReads
    /\ Fire(IncrButtonProg(reads))

irq_decr_button_callback(reads) ==
    /\ reads \in ButtonReads
    /\ Fire(DecrButtonProg(reads))

irq_clock_timer_callback(t) ==
    /\ t \in ClockSamples
    /\ Fire(UpdateClock24Prog(t[1], t[2], t[3]))

irq_step ==
    /\ irq_todo # << >>
    /\ LET r == Exec(StepContext(irq_todo))
       IN  /\ StepCommit(r)
           /\ irq_todo' = r.todo
    /\ sentinel' = SentinelAfter(Head(irq_todo))
    /\ UNCHANGED << frames, last_op, tone_vars, led_vars, rtc_vars,
                    main_todo >>

IrqNext ==
    \/ \E prog \in MainProgs : main_call(prog)
    \/ main_step
    \/ irq_timer_callback
    \/ \E reads \in ButtonReads : irq_incr_button_callback(reads)
    \/ \E reads \in ButtonReads : irq_decr_button_callback(reads)
    \/ \E t \in ClockSamples : irq_clock_timer_callback(t)
    \/ irq_step

IrqSpec == Init /\ [][IrqNext]_vars

\* A context is inside _register: it has driven the chip select low and
\* has not yet driven it high.
InRegister(todo) ==
    IF todo = << >> THEN FALSE
    ELSE Head(todo)[1] = "spi_write" \/ Head(todo)[1] = "cs_high"

(***************************************************************************)
(* C8.  No _register call begins while another is between driving the     *)
(* chip select low and driving it high: the two contexts are never inside  *)
(* _register together.                                                     *)
(***************************************************************************)
C8_BusExclusive == ~(InRegister(main_todo) /\ InRegister(irq_todo))

(***************************************************************************)
(* C13.  A clock refresh that read hours h, minutes m and seconds s raises *)
(* nothing, leaves current_num h*10000 + m*100 + s and sends six digit     *)
(* frames, digit 0 first: the two digits of s, of m and of h, low digit    *)
(* first, with the decimal point on digits 2 and 4 and on no other; the    *)
(* controller decodes, and its digit registers hold these frames.          *)
(***************************************************************************)
C13_ClockRender ==
    OpIs("clock_timer_callback") =>
        LET h == last_op[2][1]
            m == last_op[2][2]
            s == last_op[2][3]
            shown == << s % 10, s \div 10, m % 10, m \div 10,
                        h % 10, h \div 10 >>
        IN  /\ err = ""
            /\ current_num = Some(h * 10000 + m * 100 + s)
            /\ Len(DigitFrames) = 6
            /\ \A i \in 0 .. 5 :
                  /\ DigitFrames[i + 1][1] = _DIGIT0 + i
                  /\ DigitField(DigitFrames[i + 1][2]) = shown[i + 1]
                  /\ DpBit(DigitFrames[i + 1][2]) =
                         (IF i = 2 \/ i = 4 THEN 1 ELSE 0)
                  /\ regs[_DIGIT0 + i] = DigitFrames[i + 1][2]
            /\ regs[_DECODE_MODE] = DECODE_ALL

\* 7:05:09 shows as 07.05.09
C13_Witness ==
    /\ OpIs("clock_timer_callback")
    /\ last_op[2] = << 7, 5, 9 >>
    /\ current_num = Some(70509)
    /\ DigitFrames[3] = << 3, 133 >>
    /\ DigitFrames[6] = << 6, 0 >>

\* The last call was a clock refresh that found the display blank.
RefreshedBlank ==
    IF OpIs("clock_timer_callback") THEN last_op[3] = None ELSE FALSE

(***************************************************************************)
(* C19.  A clock refresh that finds current_num None raises ValueError, as *)
(* increment_num and decrement_num do, sends no frame and leaves           *)
(* current_num None.                                                       *)
(***************************************************************************)
C19_BlankRefreshRaises ==
    RefreshedBlank =>
        /\ err = "ValueError"
        /\ frames = << >>
        /\ current_num = None

(***************************************************************************)
(* C19, amended.  A clock refresh that finds current_num None raises       *)
(* nothing and renders the time: it leaves the decimal value of the time   *)
(* read with the mask of the clock, and the digit registers hold its       *)
(* encoding.                                                               *)
(***************************************************************************)
C19_BlankRefreshRenders ==
    RefreshedBlank =>
        /\ err = ""
        /\ last_write = "dec"
        /\ current_num =
               Some(last_op[2][1] * 10000 + last_op[2][2] * 100
                    + last_op[2][3])
        /\ current_dp = CLOCK_DP
        /\ Len(DigitFrames) = 6
        /\ Reconstruct(DigitFrames) = Val(current_num)

\* The first firing of the clock timer after construction, at 23:59:59.
C19_Witness ==
    /\ last_op = << "clock_timer_callback", << 23, 59, 59 >>, None >>
    /\ err = ""
    /\ current_num = Some(235959)
    /\ regs[_DIGIT5] = 2

\* The iteration of _debounce whose test found the button high, 1 for the
\* first; 0 when no test did.
RECURSIVE ExitIteration(_, _)
ExitIteration(reads, i) ==
    IF i > _DEBOUNCE_SAMPLES THEN 0
    ELSE IF reads[2 * i] # 0 THEN i
    ELSE ExitIteration(reads, i + 1)

Debounced == OpIs("mode_button_callback")

DebouncedEarly ==
    IF Debounced THEN ExitIteration(last_op[2], 1) # 0 ELSE FALSE

DebouncedToEnd ==
    IF Debounced THEN ExitIteration(last_op[2], 1) = 0 ELSE FALSE

\* The last level a call of _debounce read.
LastRead ==
    LET i == ExitIteration(last_op[2], 1)
    IN  IF i = 0 THEN last_op[2][2 * _DEBOUNCE_SAMPLES] ELSE last_op[2][2 * i]

(***************************************************************************)
(* C14.  When _debounce returns from inside its loop, because a read of    *)
(* the button was high, it returns False: the press is not confirmed and   *)
(* the callback does nothing.                                              *)
(***************************************************************************)
C14_EarlyExitReturnsFalse ==
    DebouncedEarly => (LastRead # 0 /\ last_op[3] = FALSE)

(***************************************************************************)
(* C15.  When _debounce runs through all its iterations, it returns the    *)
(* negation of the last level it read from the button.                     *)
(***************************************************************************)
C15_ExhaustedReturnsNotLast ==
    DebouncedToEnd => (last_op[3] = (LastRead = 0))

(***************************************************************************)
(* C16.  display_clear, whatever the display showed, raises nothing,       *)
(* leaves current_num None and sends the blank glyph 0x0F to each of the   *)
(* six digits, digit 0 first; afterwards the controller decodes and every  *)
(* digit register holds the blank glyph.                                   *)
(***************************************************************************)
C16_ClearBlanks ==
    OpIs("display_clear") =>
        /\ err = ""
        /\ current_num = None
        /\ DigitFrames = [i \in 1 .. 6 |-> << _DIGIT0 + i - 1, 15 >>]
        /\ regs[_DECODE_MODE] = 255
        /\ \A i \in 0 .. 5 : regs[_DIGIT0 + i] = 15

\* A display in hexadecimal mode, cleared.
C16_Witness ==
    /\ last_op = << "display_clear", "hex" >>
    /\ current_num = None
    /\ regs[_DECODE_MODE] = 255
    /\ regs[_DIGIT5] = 15

\* The last call was name with the hex flag, on a current_num in the
\* hexadecimal range.
SteppedHex(name) ==
    IF OpIs(name)
    THEN IF last_op[2] /\ last_op[3] # None
         THEN InHexRange(Val(last_op[3])) ELSE FALSE
    ELSE FALSE

(***************************************************************************)
(* C17.  With the hex flag, increment_num on a current_num v in the        *)
(* hexadecimal range leaves v + 1, and 0 when v = 0xFFFFFF; decrement_num  *)
(* leaves v - 1, and 0 when v = 0: it does not wrap to 0xFFFFFF.  Both     *)
(* raise nothing and leave the display in hexadecimal mode.                *)
(***************************************************************************)
C17_HexStep ==
    /\ SteppedHex("increment_num") =>
          /\ err = ""
          /\ last_write = "hex"
          /\ current_num =
                Some(IF Val(last_op[3]) = 16777215 THEN 0
                     ELSE Val(last_op[3]) + 1)
    /\ SteppedHex("decrement_num") =>
          /\ err = ""
          /\ last_write = "hex"
          /\ current_num =
                Some(IF Val(last_op[3]) = 0 THEN 0
                     ELSE Val(last_op[3]) - 1)

\* decrement_num(hex=True) on 0 leaves 0.
C17_Witness ==
    /\ last_op = << "decrement_num", TRUE, Some(0) >>
    /\ last_write = "hex"
    /\ current_num = Some(0)
    /\ regs[_DECODE_MODE] = 0
    /\ regs[_DIGIT0] = _HEX_TO_SEG(0)

\* The main context has assigned current_num in a write and not yet
\* current_dp: the value of this write is paired with the mask of the last.
NumWithoutDp ==
    IF main_todo = << >> THEN FALSE
    ELSE IF Head(main_todo)[1] = "set_dp"
    THEN Head(main_todo)[2] # current_dp
    ELSE FALSE

(***************************************************************************)
(* C18.  A handler never runs on a display state that a call of the main   *)
(* context has updated in part: the current_num of a write with the        *)
(* current_dp of the write before, or the -1 or 1 that increment_num or    *)
(* decrement_num stores in current_num before its write.                   *)
(***************************************************************************)
C18_AtomicDisplayState ==
    irq_todo # << >> => (~NumWithoutDp /\ ~sentinel)

RECURSIVE Pow(_, _)
Pow(b, i) == IF i = 0 THEN 1 ELSE b * Pow(b, i - 1)

\* What the digit register i shows for a display state: blank glyphs for
\* None, the decimal digits of the value with the points of the mask (and
\* the sign glyph on digit 5 for a negative value), or the segments of the
\* hexadecimal digits.
Encoding(num, dp, mode, i) ==
    IF num = None THEN 15
    ELSE IF mode = "hex"
    THEN _HEX_TO_SEG((Val(num) \div Pow(16, i)) % 16)
    ELSE IF Val(num) < 0 /\ i = 5 THEN 10
    ELSE LET mag == IF Val(num) < 0 THEN 0 - Val(num) ELSE Val(num)
         IN  ((mag \div Pow(10, i)) % 10) + 128 * MaskBit(dp, i)

Idle == main_todo = << >> /\ irq_todo = << >>

(***************************************************************************)
(* C20.  Whenever neither the main context nor a handler is inside a call, *)
(* each of the six digit registers holds the encoding of the display state *)
(* (current_num, current_dp), also after handlers ran in the middle of a   *)
(* write of the main context.                                              *)
(***************************************************************************)
C20_RegistersShowState ==
    Idle =>
        \A i \in 0 .. 5 :
            regs[_DIGIT0 + i] = Encoding(current_num, current_dp, last_write, i)

(***************************************************************************)
(* C21.  set_time_ntp(utc_offset), reading from the RTC an hour h in 0..23 *)
(* and with utc_offset in -24..24, leaves in the RTC an hour in 0..23 that *)
(* is h + utc_offset modulo 24, and every other field of the datetime as   *)
(* it read it; the hours the clock refresh reads are within 0..23, also    *)
(* between ntptime.settime() and the write of the shifted tuple.           *)
(***************************************************************************)
C21_NtpHourWraps ==
    /\ OpIs("set_time_ntp") =>
          /\ rtc[5] = (last_op[2][5] + last_op[3] + 48) % 24
          /\ \A i \in { 1, 2, 3, 4, 6, 7, 8 } : rtc[i] = last_op[2][i]
    /\ 0 <= rtc[5] /\ rtc[5] <= 23
    /\ OpIs("clock_timer_callback") =>
          (0 <= last_op[2][1] /\ last_op[2][1] <= 23)

\* 22 h at the server, five hours east: 3 h, the date as the server gave it.
C21_Witness ==
    /\ last_op = << "set_time_ntp", << 2024, 2, 29, 3, 22, 59, 59, 999 >>, 5 >>
    /\ rtc = << 2024, 2, 29, 3, 3, 59, 59, 999 >>

====
